---- MODULE Spec2Model ----
(***************************************************************************)
(* Model of the PDF text chunker: load_pdf (src/src/document_loader.py)    *)
(* and chunk_text (src/src/chunker.py).  Page texts are sequences of       *)
(* one-character strings; offsets are 0-based as in the Python source.     *)
(***************************************************************************)
EXTENDS Integers, Sequences, FiniteSets, TLC

\* ---------------------------------------------------------------- bounds
\* longest text of a single-page document
MaxLen == 6
\* largest chunk_size / chunk_overlap argument
MaxSize == 5
\* most pages of a multi-page document, and the longest text of such a page
MaxPages == 2
MaxPageLen == 2
\* the while loop is cut off after this many chunks (it need not terminate)
MaxChunks == 8

\* the characters texts are made of: an ordinary character, the period, and
\* the two whitespace characters the boundary search and strip() look at
Alphabet == {"a", ".", " ", "\n"}
Whitespace == {" ", "\n"}
Newline == <<"\n">>
PeriodSpace == <<".", " ">>
SourceName == "doc.pdf"

\* the characters of the pages of a multi-page document
PageAlphabet == {"a", " "}

Texts(A, n) == UNION {[1..k -> A] : k \in 0..n}

\* what page.get_text() returns for the pages of the opened document: one
\* page of any text, or several short pages
Docs ==
    {<<t>> : t \in Texts(Alphabet, MaxLen)}
    \cup UNION {[1..k -> Texts(PageAlphabet, MaxPageLen)] : k \in 0..MaxPages}

\* ------------------------------------------------------ Python primitives
Max2(a, b) == IF a >= b THEN a ELSE b
Min2(a, b) == IF a <= b THEN a ELSE b
SetMax(S) == CHOOSE x \in S : \A y \in S : y <= x

\* a slice index as Python normalises it: negative counts from the end,
\* then clamped to 0..len
SliceIndex(n, i) == IF i < 0 THEN Max2(n + i, 0) ELSE Min2(i, n)

\* t[i:j]
Slice(t, i, j) ==
    LET lo == SliceIndex(Len(t), i)
        hi == SliceIndex(Len(t), j)
    IN  IF lo < hi THEN SubSeq(t, lo + 1, hi) ELSE << >>

\* s.rfind(sub): the highest 0-based offset at which sub occurs in s, or -1
RFind(s, sub) ==
    LET at == {k \in 0..(Len(s) - Len(sub)) : SubSeq(s, k + 1, k + Len(sub)) = sub}
    IN  IF at = {} THEN -1 ELSE SetMax(at)

\* s.strip(): s without its leading and trailing whitespace
Strip(s) ==
    LET ink == {k \in 1..Len(s) : s[k] \notin Whitespace}
    IN  IF ink = {} THEN << >>
        ELSE SubSeq(s, CHOOSE k \in ink : \A m \in ink : k <= m, SetMax(ink))

\* ------------------------------------------------------------- load_pdf
\* load_pdf keeps the pages whose stripped text is non-empty, numbered from 1
\* by their position in the document
RECURSIVE load_pdf_from(_, _)
load_pdf_from(d, page_num) ==
    IF page_num > Len(d) THEN << >>
    ELSE LET text == d[page_num]
             rest == load_pdf_from(d, page_num + 1)
         IN  IF Strip(text) # << >>
             THEN <<[page_number |-> page_num, text |-> Strip(text),
                     source |-> SourceName]>> \o rest
             ELSE rest

load_pdf(d) == load_pdf_from(d, 1)

\* page records a caller builds without the loader: any text, numbered from 1
CallerPages(d) ==
    [k \in 1..Len(d) |-> [page_number |-> k, text |-> d[k], source |-> SourceName]]

\* ------------------------------------------------------------ chunk_text
\* the guard of the ValueError, and the guard with > written for >=
InvalidConfiguration_Strict(size, overlap) == overlap > size
InvalidConfiguration(size, overlap) == overlap >= size

\* break_point > chunk_size * 0.5, and the test with >= written for >
PastHalfway_Inclusive(break_point, size) == 2 * break_point >= size
PastHalfway(break_point, size) == 2 * break_point > size

\* chunk_index += 1, and the counter left where it was
NextIndex_Kept(i) == i
NextIndex(i) == i + 1

\* start = end - chunk_overlap, and the cursor set one character too far
Advance_OneTooFar(end, overlap) == end - overlap + 1
Advance(end, overlap) == end - overlap

\* one pass of the while body on text from cursor start: the candidate, the
\* end after boundary snapping, and whether the snapping branch was taken
Iteration(text, start, size) ==
    LET end0 == start + size
        cand0 == Slice(text, start, end0)
        break_point == Max2(RFind(cand0, Newline), RFind(cand0, PeriodSpace))
        snap == end0 < Len(text) /\ PastHalfway(break_point, size)
    IN  [start |-> start,
         end |-> IF snap THEN start + break_point + 1 ELSE end0,
         cand |-> IF snap THEN Slice(text, start, start + break_point + 1) ELSE cand0,
         snapped |-> snap]

VARIABLES
    doc,            \* the opened document's page texts (load_pdf only)
    pages,          \* the page records handed to chunk_text
    chunk_size,
    chunk_overlap,
    pc,             \* "load", "call", "for", "while", "done", "raised"
    page,           \* 1-based position of the for loop in pages, 0 before it
    start,          \* the while loop's cursor
    chunk_index,
    chunks,         \* the list being built and returned
    windows         \* per chunk: its page, cursor, end and un-trimmed candidate

vars == <<doc, pages, chunk_size, chunk_overlap, pc, page, start, chunk_index,
          chunks, windows>>

Init ==
    /\ chunk_size \in 1..MaxSize
    /\ chunk_overlap \in 0..MaxSize
    /\ \E d \in Docs :
          \/ doc = d /\ pages = << >> /\ pc = "load"
          \/ doc = << >> /\ pages = CallerPages(d) /\ pc = "call"
    /\ page = 0
    /\ start = 0
    /\ chunk_index = 0
    /\ chunks = << >>
    /\ windows = << >>

\* load_pdf: extract, strip, filter, close the document
LoadPdf ==
    /\ pc = "load"
    /\ pages' = load_pdf(doc)
    /\ doc' = << >>
    /\ pc' = "call"
    /\ UNCHANGED <<chunk_size, chunk_overlap, page, start, chunk_index, chunks, windows>>

\* chunk_text entry: the configuration check, then chunks = [], chunk_index = 0
Enter ==
    /\ pc = "call"
    /\ IF InvalidConfiguration(chunk_size, chunk_overlap)
       THEN pc' = "raised" /\ UNCHANGED <<chunks, chunk_index>>
       ELSE pc' = "for" /\ chunks' = << >> /\ chunk_index' = 0
    /\ UNCHANGED <<doc, pages, chunk_size, chunk_overlap, page, start, windows>>

\* for page in pages: next page with start = 0, or the return after the last
ForPage ==
    /\ pc = "for"
    /\ IF page < Len(pages)
       THEN page' = page + 1 /\ start' = 0 /\ pc' = "while"
       ELSE pc' = "done" /\ UNCHANGED <<page, start>>
    /\ UNCHANGED <<doc, pages, chunk_size, chunk_overlap, chunk_index, chunks, windows>>

\* while start < len(text): one chunk
WhileBody ==
    /\ pc = "while"
    /\ start < Len(pages[page].text)
    /\ Len(chunks) < MaxChunks
    /\ LET it == Iteration(pages[page].text, start, chunk_size)
       IN  /\ chunks' = Append(chunks,
                  [text |-> Strip(it.cand),
                   source |-> pages[page].source,
                   page_number |-> pages[page].page_number,
                   chunk_index |-> chunk_index])
           /\ windows' = Append(windows,
                  [page |-> page, start |-> it.start, end |-> it.end,
                   cand |-> it.cand, snapped |-> it.snapped])
           /\ chunk_index' = NextIndex(chunk_index)
           /\ start' = Advance(it.end, chunk_overlap)
    /\ UNCHANGED <<doc, pages, chunk_size, chunk_overlap, pc, page>>

\* the while condition fails: on to the next page
WhileExit ==
    /\ pc = "while"
    /\ ~(start < Len(pages[page].text))
    /\ pc' = "for"
    /\ UNCHANGED <<doc, pages, chunk_size, chunk_overlap, page, start, chunk_index,
                   chunks, windows>>

Next == LoadPdf \/ Enter \/ ForPage \/ WhileBody \/ WhileExit

Spec == Init /\ [][Next]_vars

\* ----------------------------------------------------------------------
\* Vocabulary of the properties
\* ----------------------------------------------------------------------
\* the parameters the contract allows: chunk_size > 0, 0 <= overlap < size
ValidParameters == chunk_size > 0 /\ 0 <= chunk_overlap /\ chunk_overlap < chunk_size

TextOf(p) == pages[p].text

\* positions in the output of the chunks cut from page p
ChunksOfPage(p) == {i \in 1..Len(windows) : windows[i].page = p}

\* the while loop of page p has been left
PageFinished(p) == p < page \/ (p = page /\ pc \in {"for", "done"})

\* chunk i is followed by another chunk of the same page
HasSuccessorOnPage(i) == \E j \in (i + 1)..Len(windows) : windows[j].page = windows[i].page

\* the last n items of s, and the first n
Suffix(s, n) == SubSeq(s, Len(s) - n + 1, Len(s))
Prefix(s, n) == SubSeq(s, 1, n)

\* offsets within window w at which a newline, or a period followed by a
\* space, stands
BoundaryOffsets(w) ==
    {k \in 0..(Len(w) - 1) :
        \/ w[k + 1] = "\n"
        \/ (k + 2 <= Len(w) /\ w[k + 1] = "." /\ w[k + 2] = " ")}

\* ----------------------------------------------------------------------
\* C1: for valid parameters chunk_text terminates.  The loop body is a
\* function of the page text and the cursor alone, so the loop of a page
\* terminates only if no cursor value ever comes back on that page: two
\* iterations of one page never begin at the same start.
\* ----------------------------------------------------------------------
C1_CursorNeverRecurs ==
    ValidParameters =>
        \A i, j \in 1..Len(windows) :
            (i < j /\ windows[i].page = windows[j].page)
                => windows[i].start # windows[j].start

\* ----------------------------------------------------------------------
\* C2: with chunk_overlap >= chunk_size the call raises before any page is
\* read and before any chunk is created, whatever the pages are; it never
\* reaches the loops or the return.
\* ----------------------------------------------------------------------
C2_InvalidConfigurationRaisesFirst ==
    (chunk_overlap >= chunk_size /\ pc \notin {"load", "call"})
        => /\ pc = "raised"
           /\ page = 0
           /\ chunks = << >>
           /\ windows = << >>

C2_Witness == pc = "raised" /\ Len(pages) > 0 /\ chunk_overlap >= chunk_size

\* ----------------------------------------------------------------------
\* C3: the chunk at position i (0-based) of the list carries chunk_index i,
\* across all pages.
\* ----------------------------------------------------------------------
C3_IndexIsPosition ==
    \A i \in 1..Len(chunks) : chunks[i].chunk_index = i - 1

C3_Witness ==
    /\ pc = "done"
    /\ Len(chunks) >= 3
    /\ chunks[1].page_number # chunks[Len(chunks)].page_number

\* ----------------------------------------------------------------------
\* C4: for valid parameters a non-empty page shorter than chunk_size gives
\* exactly one chunk, whose text is the whole trimmed page text.
\* ----------------------------------------------------------------------
C4_ShortPageOneChunk ==
    ValidParameters =>
        \A p \in 1..page :
            (TextOf(p) # << >> /\ Len(TextOf(p)) < chunk_size)
                => /\ Cardinality(ChunksOfPage(p)) <= 1
                   /\ PageFinished(p) =>
                         /\ Cardinality(ChunksOfPage(p)) = 1
                         /\ \A i \in ChunksOfPage(p) : chunks[i].text = Strip(TextOf(p))

\* ----------------------------------------------------------------------
\* C5: when every page text is non-empty and has no leading or trailing
\* whitespace, and the parameters are valid, no emitted chunk has an empty
\* text.
\* ----------------------------------------------------------------------
C5_NoEmptyChunk ==
    (/\ ValidParameters
     /\ pc \notin {"load"}
     /\ \A p \in 1..Len(pages) : TextOf(p) # << >> /\ Strip(TextOf(p)) = TextOf(p))
        => \A i \in 1..Len(chunks) : chunks[i].text # << >>

\* ----------------------------------------------------------------------
\* C6: two consecutive chunks of one page, neither the last of the page: the
\* later window starts at the earlier end minus chunk_overlap, and the last
\* chunk_overlap characters of the earlier un-trimmed candidate are the first
\* chunk_overlap characters of the later one.
\* ----------------------------------------------------------------------
C6_OverlapExact ==
    ValidParameters =>
        \A i \in 1..(Len(windows) - 1) :
            (/\ windows[i + 1].page = windows[i].page
             /\ HasSuccessorOnPage(i + 1))
                => /\ windows[i + 1].start = windows[i].end - chunk_overlap
                   /\ Len(windows[i].cand) >= chunk_overlap
                   /\ Len(windows[i + 1].cand) >= chunk_overlap
                   /\ Suffix(windows[i].cand, chunk_overlap)
                         = Prefix(windows[i + 1].cand, chunk_overlap)

\* ----------------------------------------------------------------------
\* C7: for valid parameters a chunk that was not snapped has an un-trimmed
\* candidate of exactly chunk_size characters, unless it is the last chunk of
\* its page, whose candidate has at most chunk_size characters.
\* ----------------------------------------------------------------------
C7_UnsnappedWidth ==
    ValidParameters =>
        \A i \in 1..Len(windows) :
            ~windows[i].snapped
                => /\ Len(windows[i].cand) <= chunk_size
                   /\ HasSuccessorOnPage(i) => Len(windows[i].cand) = chunk_size

\* ----------------------------------------------------------------------
\* C8: for valid parameters every iteration moves the cursor strictly
\* forward (end - chunk_overlap > start), so the chunks of a page appear in
\* strictly increasing start order, after the chunks of all earlier pages.
\* ----------------------------------------------------------------------
C8_CursorStrictlyAdvances ==
    ValidParameters =>
        /\ \A i \in 1..Len(windows) :
              windows[i].end - chunk_overlap > windows[i].start
        /\ \A i, j \in 1..Len(windows) :
              i < j => /\ windows[i].page <= windows[j].page
                       /\ windows[i].page = windows[j].page
                             => windows[i].start < windows[j].start

C10_EveryOffsetCovered ==
    (pc = "done" /\ ValidParameters) =>
        \A p \in 1..Len(pages) :
            \A k \in 0..(Len(TextOf(p)) - 1) :
                \E i \in ChunksOfPage(p) :
                    /\ SliceIndex(Len(TextOf(p)), windows[i].start) <= k
                    /\ k < SliceIndex(Len(TextOf(p)), windows[i].end)
                    /\ Len(windows[i].cand)
                          = SliceIndex(Len(TextOf(p)), windows[i].end)
                              - SliceIndex(Len(TextOf(p)), windows[i].start)

C10_Witness ==
    /\ pc = "done"
    /\ ValidParameters
    /\ Len(pages) = 1
    /\ Cardinality(ChunksOfPage(1)) >= 3
    /\ \E i \in ChunksOfPage(1) : windows[i].snapped

====
